---- MODULE Spec2Model ----
(***************************************************************************)
(* Brevo blocklist extractor (src/src/component.py).                       *)
(*                                                                         *)
(* Component.run fetches two feeds in turn, transactional then marketing.  *)
(* For each enabled feed it probes the total record count with blocking    *)
(* requests (get_total_records), truncates the output file and writes its  *)
(* header, then runs process_batches on an asyncio event loop: a           *)
(* queue.Queue of offsets drained by worker coroutines, each fetching one  *)
(* page at a time (fetch_contacts_batch) and appending it to the file.     *)
(*                                                                         *)
(* The event loop is cooperative: a coroutine runs until its next await.   *)
(* 'running' is the coroutine holding the loop, Yields names the positions *)
(* at which it lets go.                                                    *)
(***************************************************************************)
EXTENDS Integers, Sequences, FiniteSets, TLC

\* ---- bounds of the model ------------------------------------------------
\* Worker coroutines of one pool (the code starts 30, line 154).
NumWorkers == 2
\* Largest offset plan the count probe's answer can lead to.
MaxPages == 2
\* Largest number of contacts the API puts in one page.
MaxPageLen == 2
\* Largest offset plan process_batches is run on by itself (PoolSpec): one
\* offset more than there are workers.
PoolMaxPages == 3
\* Largest total and batch size the offset plan is built for on its own (PlanSpec).
PlanMaxTotal == 12
PlanMaxBatch == 5

\* ---- program constants --------------------------------------------------
\* get_total_records: attempts = 3
probe_attempts == 3
\* fetch_contacts_batch: max_attempts = 10
max_attempts == 10
\* __main__: exit(1) on UserException, exit(2) on any other exception
UserExitCode == 1
InternalExitCode == 2

KEY_TRANSACTIONAL == "transactional"
KEY_MARKETING == "marketing"
Feeds == {KEY_TRANSACTIONAL, KEY_MARKETING}

None == "none"
Null == "null"
\* A file that does not exist, and a file holding the given lines.
Absent == [exists |-> FALSE, lines |-> <<>>]
FileOf(ls) == [exists |-> TRUE, lines |-> ls]

Workers == 1..NumWorkers

\* batch_size = 100 (get_blocked_contacts), 1000 (get_marketing_contacts)
BatchSize(f) == IF f = KEY_TRANSACTIONAL THEN 100 ELSE 1000

\* What one HTTP GET can come back with.  "ok" is a 2xx with a JSON body;
\* the others make raise_for_status / json() raise.
RespKinds == {"ok", "network", "s5xx", "s429", "s4xx", "s404", "badjson"}
\* The kinds that make the request raise.
Failures == RespKinds \ {"ok"}

\* Emails a contact can carry; Null stands for a null or missing email.
Emails == {Null, "a"}

RECURSIVE SeqsUpTo(_, _)
SeqsUpTo(S, n) ==
  IF n = 0 THEN {<<>>}
  ELSE LET shorter == SeqsUpTo(S, n - 1)
       IN  shorter \cup {Append(s, x) : s \in {t \in shorter : Len(t) = n - 1}, x \in S}

\* The API's pages: the emails of the contacts, in the response's order.
Pages == SeqsUpTo(Emails, MaxPageLen)

\* The counts the probe can read: one for every plan length 0..MaxPages, the
\* last a total that is not a multiple of the batch size.
Counts(f) ==
  {k * BatchSize(f) : k \in 0..(MaxPages - 1)} \cup {(MaxPages - 1) * BatchSize(f) + 1}

\* The totals process_batches is run on by itself: one for every plan length
\* 0..PoolMaxPages.
PoolCounts(f) == {k * BatchSize(f) : k \in 0..PoolMaxPages}

Range(s) == {s[i] : i \in 1..Len(s)}

\* ---- state ----------------------------------------------------------------
VARIABLES
  api_token,      \* Component.api_token is set (TRUE) or missing (FALSE)
  transactional,  \* Component.transactional
  marketing,      \* Component.marketing
  fault,          \* the kinds of failure the API and the network answer with
  mainpc,         \* position of the main thread (run and what it calls)
  feed,           \* the feed run() is working on
  exit_code,      \* -1 while the process runs, then the code of exit()
  attempts,       \* get_total_records: attempts left
  probe_gets,     \* GETs issued by the current get_total_records call
  probe_sleeps,   \* durations slept by the current get_total_records call
  total_records,  \* result of get_total_records
  batch_size,     \* batch_size handed to process_batches
  file,           \* feed -> its output file: whether it exists, and its lines
  state_file,     \* the feeds on whose behalf write_state_file was called
  offsets,        \* process_batches: the queue.Queue of offsets
  unfinished,     \* queue.Queue.unfinished_tasks
  pc,             \* worker -> position of the coroutine
  offset,         \* worker -> its local 'offset' (-1: none)
  attempt,        \* worker -> loop variable of fetch_contacts_batch
  contacts,       \* worker -> its local 'contacts' still to be written
  running,        \* the coroutine holding the event loop: {w}, or {} for none
  inflight,       \* the page requests sent and not yet answered or closed
  dispatched,     \* history: the offsets taken from the queue, in order
  gets,           \* history: worker -> GETs issued by its current fetch
  sleeps,         \* history: worker -> durations slept in the current fetch
  returned,       \* history: offset -> the page the API returned, or NotReturned
  exhausted,      \* history: [feed, offset] whose fetch failed on every attempt
  emptyPending    \* history: what was pending when an empty page was first seen

params == <<api_token, transactional, marketing, fault>>
mainv == <<mainpc, feed, exit_code>>
probev == <<attempts, probe_gets, probe_sleeps, total_records>>
poolv == <<batch_size, offsets, unfinished, pc, offset, attempt, contacts, running,
          inflight>>
histv == <<dispatched, gets, sleeps, returned, exhausted, emptyPending>>
vars == <<params, mainv, probev, poolv, histv, file, state_file>>

NotReturned == <<"-">>
NotSeen == [seen |-> FALSE, pending |-> {}]

\* ---- pure parts of the code -----------------------------------------------
\* self.transactional / self.marketing (lines 51, 58)
FeedEnabledSwapped(f) == IF f = KEY_TRANSACTIONAL THEN marketing ELSE transactional
FeedEnabled(f) == IF f = KEY_TRANSACTIONAL THEN transactional ELSE marketing

\* range(0, total_records, batch_size) put on the queue in order (lines 118-120)
RECURSIVE RangeFrom(_, _, _)
RangeFrom(start, stop, step) ==
  IF start >= stop THEN <<>>
  ELSE <<start>> \o RangeFrom(start + step, stop, step)

OffsetPlanSkipsLast(N, B) == RangeFrom(0, N - B + 1, B)
OffsetPlan(N, B) == RangeFrom(0, N, B)

\* 'while attempts > 0' and 'if attempts > 0' of get_total_records (lines 74, 86)
ProbeRetriesOnceMore(a) == a >= 0
ProbeRetries(a) == a > 0

\* 'raise UserException' when the attempts are used up (line 89): where the
\* main thread goes from there.  Nothing in get_*_contacts or run() catches
\* it, so it leaves run() and ends the process.
ProbeFailureReturnsZero == "open_sink"
ProbeFailureNext == "exit"

\* 'raise UserException' when the attempts are used up (line 89), caught by
\* 'except UserException' of __main__ (lines 190-192)
ProbeFailureExitInternal == InternalExitCode
ProbeFailureExit == UserExitCode

\* time.sleep(2 ** (3 - attempts)) (line 87)
ProbeBackoffShrinking(a) == 2 ^ a
ProbeBackoffBaseTwo(a) == 2 * 2 ^ (probe_attempts - a)
ProbeBackoff(a) == 2 ^ (probe_attempts - a)

\* 'except requests.RequestException' of get_total_records (line 83): which
\* failures of the request it takes.  ConnectionError and Timeout, the
\* HTTPError of raise_for_status (any 4xx or 5xx status) and the
\* JSONDecodeError of response.json() are all RequestExceptions.
ProbeCatchesRetriableOnly(kind) == kind \in {"network", "s5xx", "s429"}
ProbeCatches(kind) == kind \in {"network", "s5xx", "s429", "s4xx", "s404", "badjson"}

\* 'except Exception' of fetch_contacts_batch (line 109): which failures of
\* the request it takes: every one, whatever the status or the error.
FetchCatchesAllButNotFound(kind) == kind \in Failures \ {"s404"}
FetchCatchesRetriableOnly(kind) == kind \in {"network", "s5xx", "s429"}
FetchCatches(kind) == kind \in Failures

\* 'if attempt < max_attempts - 1' of fetch_contacts_batch (line 111)
FetchRetriesOnceMore(k) == k < max_attempts
FetchRetries(k) == k < max_attempts - 1

\* asyncio.sleep(2 ** attempt) (line 112)
FetchBackoff(k) == 2 ^ k

\* valid_contacts: the contacts whose email is not None, in order (line 106)
RECURSIVE ValidFrom(_, _)
ValidFrom(page, i) ==
  IF i > Len(page) THEN <<>>
  ELSE (IF page[i] # Null THEN <<[idx |-> i, email |-> page[i]]>> ELSE <<>>)
       \o ValidFrom(page, i + 1)

RECURSIVE AllFrom(_, _)
AllFrom(page, i) ==
  IF i > Len(page) THEN <<>>
  ELSE <<[idx |-> i, email |-> page[i]]>> \o AllFrom(page, i + 1)

ValidContactsUnfiltered(page) == AllFrom(page, 1)
ValidContacts(page) == ValidFrom(page, 1)

\* the header line written when the file is opened (lines 166, 180)
HeaderLine(f) == [kind |-> "header", feed |-> f, offset |-> -1, idx |-> 0, email |-> ""]

\* one line of df.to_csv for one contact (lines 137-144)
RowLine(f, off, c) ==
  [kind |-> "row", feed |-> f, offset |-> off, idx |-> c.idx, email |-> c.email]

\* to_csv(..., mode='a', header=False): what is written ahead of the rows
PageHeaderRepeated(f) == <<HeaderLine(f)>>
PageHeader(f) == <<>>

\* queue.Queue.get: the item it returns, the oldest on the queue (line 125)
QueueHeadNewest(q) == q[Len(q)]
QueueHead(q) == Head(q)

\* queue.Queue.get: what is left on the queue after taking its head (line 125)
QueueRestPeek(q) == q
QueueRest(q) == Tail(q)

\* 'while not offsets.empty()' (line 124); the loop has no other exit
LoopStopsOnEmptyPage(q, seen) == q # <<>> /\ ~seen
LoopNeverEnds(q, seen) == TRUE
LoopContinues(q, seen) == q # <<>>

\* session.get(endpoint, headers=headers, params=params) (line 102): the
\* request a worker sends for an offset on an attempt.
RequestOf(w, off, k) == [worker |-> w, offset |-> off, attempt |-> k]

\* 'async with session.get(...) as response' (lines 102-108): leaving the
\* block, by the return or by an exception, closes the worker's request.
RequestLeftOpen(reqs, w) == reqs
RequestClosed(reqs, w) == {r \in reqs : r.worker # w}

\* The positions at which a coroutine gives the event loop away: before it
\* is first scheduled, in session.get / response.json (line 102-104), in
\* asyncio.sleep (line 112), and once it has ended.  Nothing between them
\* awaits: queue.Queue and DataFrame.to_csv are blocking calls.
YieldsEverywhere(p) == p # "blocked"
Yields(p) == p \in {"none", "start", "await_resp", "sleeping", "done", "failed", "cancelled"}

CanRun(w) ==
  /\ mainpc = "gather"
  /\ \/ running = {w}
     \/ running = {} /\ Yields(pc[w])

Release(w, p) == IF Yields(p) THEN {} ELSE {w}

\* ---- initial state: the component is constructed, run() not yet called ----
Init ==
  /\ api_token \in BOOLEAN
  /\ transactional \in BOOLEAN
  /\ marketing \in BOOLEAN
  /\ fault = Failures
  /\ mainpc = "run"
  /\ feed = None
  /\ exit_code = -1
  /\ attempts = 0
  /\ probe_gets = 0
  /\ probe_sleeps = <<>>
  /\ total_records = 0
  /\ batch_size = 0
  /\ file = [f \in Feeds |-> Absent]
  /\ state_file = <<>>
  /\ offsets = <<>>
  /\ unfinished = 0
  /\ pc = [w \in Workers |-> "none"]
  /\ offset = [w \in Workers |-> -1]
  /\ attempt = [w \in Workers |-> 0]
  /\ contacts = [w \in Workers |-> <<>>]
  /\ running = {}
  /\ inflight = {}
  /\ dispatched = <<>>
  /\ gets = [w \in Workers |-> 0]
  /\ sleeps = [w \in Workers |-> <<>>]
  /\ returned = <<>>
  /\ exhausted = {}
  /\ emptyPending = NotSeen

\* ---- Component.run (lines 39-66) and __main__ (lines 186-195) --------------
\* lines 48-51: a missing token raises UserException, which __main__ turns
\* into exit(1); otherwise run() turns to the transactional feed.
RunStart ==
  /\ mainpc = "run"
  /\ IF ~api_token
       THEN /\ mainpc' = "exit"
            /\ exit_code' = UserExitCode
            /\ feed' = feed
       ELSE /\ mainpc' = "feed"
            /\ feed' = KEY_TRANSACTIONAL
            /\ exit_code' = exit_code
  /\ UNCHANGED <<params, probev, poolv, histv, file, state_file>>

\* After a feed (run or skipped): the marketing feed follows the transactional
\* one, and after the marketing feed run() returns and the process exits 0.
AfterFeed ==
  IF feed = KEY_TRANSACTIONAL
    THEN /\ feed' = KEY_MARKETING
         /\ mainpc' = "feed"
         /\ exit_code' = exit_code
    ELSE /\ feed' = feed
         /\ mainpc' = "exit"
         /\ exit_code' = 0

\* lines 51-53, 58-60: the feed's flag is set; get_*_contacts calls
\* get_total_records, which starts with attempts = 3 (line 73).
FeedStart ==
  /\ mainpc = "feed"
  /\ FeedEnabled(feed)
  /\ mainpc' = "probe"
  /\ attempts' = probe_attempts
  /\ probe_gets' = 0
  /\ probe_sleeps' = <<>>
  /\ UNCHANGED <<params, feed, exit_code, total_records, poolv, histv, file, state_file>>

\* lines 56-57, 63-64: the feed's flag is not set; log and go on.
FeedSkip ==
  /\ mainpc = "feed"
  /\ ~FeedEnabled(feed)
  /\ AfterFeed
  /\ UNCHANGED <<params, probev, poolv, histv, file, state_file>>

\* get_total_records, one turn of its loop (lines 74-89): one blocking GET.
\* A 2xx with a JSON body returns data.get('count', 0).  Everything else
\* raises a requests.RequestException (HTTPError from raise_for_status,
\* ConnectionError/Timeout, JSONDecodeError from json()), which costs one
\* attempt: with attempts left the call sleeps and loops, with none it
\* raises UserException, which leaves run() and makes __main__ exit(1).
ProbeRequest ==
  /\ mainpc = "probe"
  /\ IF ~ProbeRetries(attempts)
       THEN \* line 91: the loop ended without a result
            /\ total_records' = 0
            /\ mainpc' = "open_sink"
            /\ UNCHANGED <<attempts, probe_gets, probe_sleeps, exit_code>>
       ELSE /\ probe_gets' = probe_gets + 1
            /\ \E kind \in {"ok"} \cup fault :
                 IF kind = "ok"
                   THEN /\ \E count \in Counts(feed) : total_records' = count
                        /\ mainpc' = "open_sink"
                        /\ UNCHANGED <<attempts, probe_sleeps, exit_code>>
                   ELSE IF ~ProbeCatches(kind)
                   THEN \* the exception leaves run(): __main__ exits 2
                        /\ mainpc' = "exit"
                        /\ exit_code' = InternalExitCode
                        /\ UNCHANGED <<attempts, probe_sleeps, total_records>>
                   ELSE /\ attempts' = attempts - 1
                        /\ total_records' = total_records
                        /\ IF ProbeRetries(attempts - 1)
                             THEN /\ probe_sleeps' =
                                       Append(probe_sleeps, ProbeBackoff(attempts - 1))
                                  /\ mainpc' = "probe_sleep"
                                  /\ exit_code' = exit_code
                             ELSE /\ probe_sleeps' = probe_sleeps
                                  /\ mainpc' = ProbeFailureNext
                                  /\ exit_code' = IF ProbeFailureNext = "exit"
                                                    THEN ProbeFailureExit
                                                    ELSE exit_code
  /\ UNCHANGED <<params, feed, poolv, histv, file, state_file>>

\* line 87: time.sleep returns and the loop takes its next turn.
ProbeSleep ==
  /\ mainpc = "probe_sleep"
  /\ mainpc' = "probe"
  /\ UNCHANGED <<params, feed, exit_code, probev, poolv, histv, file, state_file>>

\* lines 162-166 / 176-180: get_total_records has returned (its locals are
\* gone); open(path, 'w') truncates (or creates) the feed's file and writes
\* the header line; batch_size is fixed for the feed.
OpenSink ==
  /\ mainpc = "open_sink"
  /\ file' = [file EXCEPT ![feed] = FileOf(<<HeaderLine(feed)>>)]
  /\ batch_size' = BatchSize(feed)
  /\ attempts' = 0
  /\ probe_gets' = 0
  /\ probe_sleeps' = <<>>
  /\ mainpc' = "process_batches"
  /\ UNCHANGED <<params, feed, exit_code, total_records, offsets, unfinished, pc, offset,
                 attempt, contacts, running, inflight, histv, state_file>>

\* process_batches up to the gather (lines 118-120, 153-155): a new queue
\* holding the offset plan, and the worker coroutines handed to the loop.
PoolInit ==
  /\ mainpc = "process_batches"
  /\ offsets' = OffsetPlan(total_records, batch_size)
  /\ unfinished' = Len(offsets')
  /\ pc' = [w \in Workers |-> "start"]
  /\ offset' = [w \in Workers |-> -1]
  /\ attempt' = [w \in Workers |-> 0]
  /\ contacts' = [w \in Workers |-> <<>>]
  /\ running' = {}
  /\ inflight' = {}
  /\ dispatched' = <<>>
  /\ gets' = [w \in Workers |-> 0]
  /\ sleeps' = [w \in Workers |-> <<>>]
  /\ returned' = [o \in Range(offsets') |-> NotReturned]
  /\ exhausted' = {}
  /\ emptyPending' = NotSeen
  /\ mainpc' = "gather"
  /\ UNCHANGED <<params, feed, exit_code, probev, batch_size, file, state_file>>

PoolDoneOnFirstWorker ==
  /\ mainpc = "gather"
  /\ running = {}
  /\ \E w \in Workers : pc[w] = "done"
  /\ mainpc' = "write_state"
  /\ UNCHANGED <<params, feed, exit_code, probev, poolv, histv, file, state_file>>

\* lines 155-156: every worker has returned, so the gather completes and
\* process_batches, asyncio.run and get_*_contacts return.
PoolDone ==
  /\ mainpc = "gather"
  /\ running = {}
  /\ \A w \in Workers : pc[w] = "done"
  /\ mainpc' = "write_state"
  /\ UNCHANGED <<params, feed, exit_code, probev, poolv, histv, file, state_file>>

\* line 155: a worker has raised, so the gather raises; asyncio.run cancels
\* the workers still in the loop (a cancelled worker leaves its
\* 'async with' blocks, which closes its request and its session), and the
\* exception leaves run(): exit(2).
PoolRaise ==
  /\ mainpc = "gather"
  /\ running = {}
  /\ \E w \in Workers : pc[w] = "failed"
  /\ pc' = [w \in Workers |-> IF pc[w] \in {"done", "failed"} THEN pc[w] ELSE "cancelled"]
  /\ inflight' = {}
  /\ mainpc' = "exit"
  /\ exit_code' = InternalExitCode
  /\ UNCHANGED <<params, feed, probev, batch_size, offsets, unfinished, offset, attempt,
                 contacts, running, histv, file, state_file>>

\* lines 54 / 61: write_state_file for the feed that has just completed.  The
\* pool of that feed is gone, and its history with it (but for 'exhausted',
\* which is kept until the next pool starts).
WriteState ==
  /\ mainpc = "write_state"
  /\ state_file' = Append(state_file, feed)
  /\ AfterFeed
  /\ dispatched' = <<>>
  /\ returned' = <<>>
  /\ emptyPending' = NotSeen
  /\ pc' = [w \in Workers |-> "none"]
  /\ UNCHANGED <<params, probev, batch_size, offsets, unfinished, offset, attempt,
                 contacts, running, inflight, gets, sleeps, exhausted, file>>

\* ---- process_batches.worker (lines 122-151) --------------------------------
\* What the worker does once fetch_contacts_batch has handed it 'contacts'
\* (lines 128-144, 149-150): 'if contacts:'.  With contacts the frame is built
\* (the transactional feed flattens 'reason', the marketing feed selects its
\* columns; a page without the fields this needs raises and ends the worker)
\* and to_csv is called.  Without contacts the worker only logs.
AfterFetch(cs, wf) ==
  IF cs = <<>> THEN "task_done" ELSE IF wf THEN "write" ELSE "failed"

\* line 115: after the last failed attempt fetch_contacts_batch returns [],
\* which the worker takes like a page without contacts.
AfterExhaustedRaises == "failed"
AfterExhausted == AfterFetch(<<>>, TRUE)

\* lines 123-124: the coroutine is scheduled for the first time, opens its
\* session and tests 'while not offsets.empty()'.  When the test fails the
\* session is closed and the coroutine returns.
WorkerStart(w) ==
  /\ CanRun(w)
  /\ pc[w] = "start"
  /\ LET next == IF LoopContinues(offsets, emptyPending.seen) THEN "get" ELSE "done"
     IN  /\ pc' = [pc EXCEPT ![w] = next]
         /\ running' = Release(w, next)
  /\ UNCHANGED <<params, mainv, probev, batch_size, offsets, unfinished, offset,
                 attempt, contacts, inflight, histv, file, state_file>>

\* lines 125-127, 94-102: offsets.get() takes the head of the queue;
\* fetch_contacts_batch is entered, and its first attempt (attempt = 0) sends
\* the request and awaits.  queue.Queue.get blocks the calling thread while
\* the queue is empty, and with it the event loop.
WorkerGet(w) ==
  /\ CanRun(w)
  /\ pc[w] = "get"
  /\ IF offsets = <<>>
       THEN /\ pc' = [pc EXCEPT ![w] = "blocked"]
            /\ running' = {w}
            /\ UNCHANGED <<offsets, offset, attempt, inflight, dispatched, sleeps, gets>>
       ELSE /\ offset' = [offset EXCEPT ![w] = QueueHead(offsets)]
            /\ offsets' = QueueRest(offsets)
            /\ dispatched' = Append(dispatched, QueueHead(offsets))
            /\ attempt' = [attempt EXCEPT ![w] = 0]
            /\ sleeps' = [sleeps EXCEPT ![w] = <<>>]
            /\ gets' = [gets EXCEPT ![w] = 1]
            /\ inflight' = inflight \cup {RequestOf(w, QueueHead(offsets), 0)}
            /\ pc' = [pc EXCEPT ![w] = "await_resp"]
            /\ running' = Release(w, "await_resp")
  /\ UNCHANGED <<params, mainv, probev, batch_size, unfinished, contacts,
                 returned, exhausted, emptyPending, file, state_file>>

\* lines 103-108, 128-144: the response is a 2xx with a JSON body.  The
\* contacts with an email are returned to the worker (the locals of
\* fetch_contacts_batch are gone), which goes on to write them.
FetchOk(w) ==
  /\ CanRun(w)
  /\ pc[w] = "await_resp"
  /\ \E page \in Pages, wf \in BOOLEAN :
       LET next == AfterFetch(ValidContacts(page), wf)
       IN  /\ contacts' = [contacts EXCEPT ![w] =
                             IF next = "write" THEN ValidContacts(page) ELSE <<>>]
           /\ returned' = [returned EXCEPT ![offset[w]] = page]
           /\ emptyPending' =
                IF page = <<>> /\ ~emptyPending.seen
                  THEN [seen |-> TRUE, pending |-> Range(offsets)]
                  ELSE emptyPending
           /\ file' = IF next = "write"
                        THEN [file EXCEPT ![feed].lines = @ \o PageHeader(feed)]
                        ELSE file
           /\ offset' = [offset EXCEPT ![w] = IF next = "failed" THEN -1 ELSE @]
           /\ pc' = [pc EXCEPT ![w] = next]
           /\ running' = Release(w, next)
  /\ attempt' = [attempt EXCEPT ![w] = 0]
  /\ gets' = [gets EXCEPT ![w] = 0]
  /\ sleeps' = [sleeps EXCEPT ![w] = <<>>]
  /\ inflight' = RequestClosed(inflight, w)
  /\ UNCHANGED <<params, mainv, probev, batch_size, offsets, unfinished,
                 dispatched, exhausted, state_file>>

\* lines 109-115, 149-150: the request raised (any status raise_for_status
\* rejects, a network error, a body that is not JSON): 'except Exception'
\* takes them all alike.  Before the last attempt the coroutine sleeps
\* 2 ** attempt; on the last one fetch_contacts_batch returns [], and the
\* worker logs that nothing was fetched.
FetchError(w) ==
  /\ CanRun(w)
  /\ pc[w] = "await_resp"
  /\ \E kind \in fault :
       IF ~FetchCatches(kind)
         THEN \* the exception leaves fetch_contacts_batch and the worker
              /\ pc' = [pc EXCEPT ![w] = "failed"]
              /\ running' = Release(w, "failed")
              /\ contacts' = [contacts EXCEPT ![w] = <<>>]
              /\ attempt' = [attempt EXCEPT ![w] = 0]
              /\ gets' = [gets EXCEPT ![w] = 0]
              /\ sleeps' = [sleeps EXCEPT ![w] = <<>>]
              /\ UNCHANGED exhausted
       ELSE IF FetchRetries(attempt[w])
         THEN /\ sleeps' = [sleeps EXCEPT ![w] = Append(@, FetchBackoff(attempt[w]))]
              /\ pc' = [pc EXCEPT ![w] = "sleeping"]
              /\ running' = Release(w, "sleeping")
              /\ UNCHANGED <<contacts, exhausted, attempt, gets>>
         ELSE /\ contacts' = [contacts EXCEPT ![w] = <<>>]
              /\ exhausted' = exhausted \cup {[feed |-> feed, offset |-> offset[w]]}
              /\ pc' = [pc EXCEPT ![w] = AfterExhausted]
              /\ running' = Release(w, AfterExhausted)
              /\ attempt' = [attempt EXCEPT ![w] = 0]
              /\ gets' = [gets EXCEPT ![w] = 0]
              /\ sleeps' = [sleeps EXCEPT ![w] = <<>>]
  /\ inflight' = RequestClosed(inflight, w)
  /\ UNCHANGED <<params, mainv, probev, batch_size, offsets, unfinished, offset,
                 dispatched, returned, emptyPending, file, state_file>>

\* lines 112, 99-102: asyncio.sleep is over; the for loop takes its next
\* attempt, which sends the request and awaits.
FetchWake(w) ==
  /\ CanRun(w)
  /\ pc[w] = "sleeping"
  /\ attempt' = [attempt EXCEPT ![w] = @ + 1]
  /\ gets' = [gets EXCEPT ![w] = @ + 1]
  /\ inflight' = inflight \cup {RequestOf(w, offset[w], attempt[w] + 1)}
  /\ pc' = [pc EXCEPT ![w] = "await_resp"]
  /\ running' = Release(w, "await_resp")
  /\ UNCHANGED <<params, mainv, probev, batch_size, offsets, unfinished, offset,
                 contacts, dispatched, sleeps, returned, exhausted,
                 emptyPending, file, state_file>>

\* line 144: to_csv appends the frame's rows, one line per contact, in order.
WorkerWrite(w) ==
  /\ CanRun(w)
  /\ pc[w] = "write"
  /\ file' = [file EXCEPT ![feed].lines =
                Append(@, RowLine(feed, offset[w], Head(contacts[w])))]
  /\ contacts' = [contacts EXCEPT ![w] = Tail(@)]
  /\ LET next == IF Tail(contacts[w]) = <<>> THEN "task_done" ELSE "write"
     IN  /\ pc' = [pc EXCEPT ![w] = next]
         /\ running' = Release(w, next)
  /\ UNCHANGED <<params, mainv, probev, batch_size, offsets, unfinished, offset,
                 attempt, inflight, histv, state_file>>

\* lines 145-151, 124: the page is dropped, offsets.task_done() is called and
\* the loop tests 'while not offsets.empty()' again.
WorkerTaskDone(w) ==
  /\ CanRun(w)
  /\ pc[w] = "task_done"
  /\ unfinished' = unfinished - 1
  /\ offset' = [offset EXCEPT ![w] = -1]
  /\ LET next == IF LoopContinues(offsets, emptyPending.seen) THEN "get" ELSE "done"
     IN  /\ pc' = [pc EXCEPT ![w] = next]
         /\ running' = Release(w, next)
  /\ UNCHANGED <<params, mainv, probev, batch_size, offsets, attempt, contacts,
                 inflight, histv, file, state_file>>

Next ==
  \/ RunStart
  \/ FeedStart
  \/ FeedSkip
  \/ ProbeRequest
  \/ ProbeSleep
  \/ OpenSink
  \/ PoolInit
  \/ PoolDone
  \/ PoolRaise
  \/ WriteState
  \/ \E w \in Workers :
       \/ WorkerStart(w)
       \/ WorkerGet(w)
       \/ FetchOk(w)
       \/ FetchError(w)
       \/ FetchWake(w)
       \/ WorkerWrite(w)
       \/ WorkerTaskDone(w)

Spec == Init /\ [][Next]_vars

\* ---- process_batches on its own ---------------------------------------------
\* The states in which get_*_contacts calls process_batches: one feed enabled,
\* its count probed, its file opened with the header.
PoolSpecInit ==
  /\ api_token = TRUE
  /\ feed \in Feeds
  /\ transactional = (feed = KEY_TRANSACTIONAL)
  /\ marketing = (feed = KEY_MARKETING)
  /\ fault = Failures
  /\ mainpc = "process_batches"
  /\ exit_code = -1
  /\ attempts = 0
  /\ probe_gets = 0
  /\ probe_sleeps = <<>>
  /\ total_records \in PoolCounts(feed)
  /\ batch_size = BatchSize(feed)
  /\ file = [f \in Feeds |-> IF f = feed THEN FileOf(<<HeaderLine(f)>>) ELSE Absent]
  /\ state_file = <<>>
  /\ offsets = <<>>
  /\ unfinished = 0
  /\ pc = [w \in Workers |-> "none"]
  /\ offset = [w \in Workers |-> -1]
  /\ attempt = [w \in Workers |-> 0]
  /\ contacts = [w \in Workers |-> <<>>]
  /\ running = {}
  /\ inflight = {}
  /\ dispatched = <<>>
  /\ gets = [w \in Workers |-> 0]
  /\ sleeps = [w \in Workers |-> <<>>]
  /\ returned = <<>>
  /\ exhausted = {}
  /\ emptyPending = NotSeen

PoolNext ==
  \/ PoolInit
  \/ PoolDone
  \/ PoolRaise
  \/ WriteState
  \/ \E w \in Workers :
       \/ WorkerStart(w)
       \/ WorkerGet(w)
       \/ FetchOk(w)
       \/ FetchError(w)
       \/ FetchWake(w)
       \/ WorkerWrite(w)
       \/ WorkerTaskDone(w)

PoolSpec == PoolSpecInit /\ [][PoolNext]_vars

\* asyncio.run keeps the event loop going while a coroutine is ready, a timer
\* is due or a request is open (the session's default timeout ends every
\* request), and run() goes on when the gather is over: process_batches does
\* not stop while one of its steps is possible.
FairPoolSpec == PoolSpec /\ WF_vars(PoolNext)

\* ---- one feed against a remote that fails in one way ------------------------
\* run() with the token set and one of the two feeds enabled, against a
\* remote all of whose failures are of one kind.
FaultSpecInit ==
  /\ api_token = TRUE
  /\ transactional \in BOOLEAN
  /\ marketing = ~transactional
  /\ fault \in {{kind} : kind \in Failures}
  /\ mainpc = "run"
  /\ feed = None
  /\ exit_code = -1
  /\ attempts = 0
  /\ probe_gets = 0
  /\ probe_sleeps = <<>>
  /\ total_records = 0
  /\ batch_size = 0
  /\ file = [f \in Feeds |-> Absent]
  /\ state_file = <<>>
  /\ offsets = <<>>
  /\ unfinished = 0
  /\ pc = [w \in Workers |-> "none"]
  /\ offset = [w \in Workers |-> -1]
  /\ attempt = [w \in Workers |-> 0]
  /\ contacts = [w \in Workers |-> <<>>]
  /\ running = {}
  /\ inflight = {}
  /\ dispatched = <<>>
  /\ gets = [w \in Workers |-> 0]
  /\ sleeps = [w \in Workers |-> <<>>]
  /\ returned = <<>>
  /\ exhausted = {}
  /\ emptyPending = NotSeen

FaultSpec == FaultSpecInit /\ [][Next]_vars

\* ---- the offset plan on its own ---------------------------------------------
\* process_batches entered with any total and any positive batch size.
PlanSpecInit ==
  /\ api_token = TRUE
  /\ feed = KEY_TRANSACTIONAL
  /\ transactional = TRUE
  /\ marketing = FALSE
  /\ fault = Failures
  /\ mainpc = "process_batches"
  /\ exit_code = -1
  /\ attempts = 0
  /\ probe_gets = 0
  /\ probe_sleeps = <<>>
  /\ total_records \in 0..PlanMaxTotal
  /\ batch_size \in 1..PlanMaxBatch
  /\ file = [f \in Feeds |-> IF f = feed THEN FileOf(<<HeaderLine(f)>>) ELSE Absent]
  /\ state_file = <<>>
  /\ offsets = <<>>
  /\ unfinished = 0
  /\ pc = [w \in Workers |-> "none"]
  /\ offset = [w \in Workers |-> -1]
  /\ attempt = [w \in Workers |-> 0]
  /\ contacts = [w \in Workers |-> <<>>]
  /\ running = {}
  /\ inflight = {}
  /\ dispatched = <<>>
  /\ gets = [w \in Workers |-> 0]
  /\ sleeps = [w \in Workers |-> <<>>]
  /\ returned = <<>>
  /\ exhausted = {}
  /\ emptyPending = NotSeen

PlanSpec == PlanSpecInit /\ [][PoolInit]_vars

\* ---- properties ---------------------------------------------------------------
\* The offset plan of the pool at hand.
Plan == OffsetPlan(total_records, batch_size)

\* The pool of the feed at hand has run to completion and run() has not yet
\* gone on.
FeedCompleted == mainpc = "write_state"

\* The data lines of the feed's file that stem from the page at offset o.
RowsOf(o) == SelectSeq(file[feed].lines, LAMBDA l : l.kind = "row" /\ l.offset = o)

NonDecreasing(s) == \A i \in 1..(Len(s) - 1) : s[i] <= s[i + 1]

\* The page at offset o is in the file: one row for each of its contacts with
\* an email, in the page's order, and no other row.
PageInFile(o, page) ==
  LET rows == RowsOf(o)
  IN  /\ \A i \in 1..Len(page) :
           page[i] # Null =>
             Cardinality({k \in 1..Len(rows) : rows[k].idx = i /\ rows[k].email = page[i]}) = 1
      /\ \A k \in 1..Len(rows) :
           /\ rows[k].idx \in 1..Len(page)
           /\ page[rows[k].idx] # Null
           /\ rows[k].email = page[rows[k].idx]
      /\ \A k \in 1..(Len(rows) - 1) : rows[k].idx < rows[k + 1].idx

\* C1: every offset of the plan is taken from the queue at most once: no
\* offset appears twice among the offsets dispatched, no two workers hold the
\* same offset, and only offsets of the plan are dispatched.
C1_DispatchedAtMostOnce ==
  /\ \A i, j \in 1..Len(dispatched) : i # j => dispatched[i] # dispatched[j]
  /\ \A v, w \in Workers : (v # w /\ offset[v] # -1) => offset[v] # offset[w]
  /\ mainpc \in {"gather", "write_state"} => Range(dispatched) \subseteq Range(Plan)

\* C1 witness: two offsets have been dispatched and two workers are fetching
\* them at the same time.
C1_Witness ==
  /\ Len(dispatched) = 2
  /\ \A w \in {1, 2} : pc[w] = "await_resp"

\* C2 as stated: once an empty page has been observed, no offset that was
\* pending at that moment is dispatched.
C2_NoDispatchAfterEmptyPage ==
  emptyPending.pending \cap Range(dispatched) = {}

\* C2 amended: an empty page stops nothing.  When the pool completes after an
\* empty page was observed, every offset that was pending at that moment has
\* been dispatched, and every page the requests brought back is in the file.
C2_DispatchGoesOnAfterEmptyPage ==
  (FeedCompleted /\ emptyPending.seen) =>
    /\ emptyPending.pending \subseteq Range(dispatched)
    /\ offsets = <<>>
    /\ \A o \in Range(dispatched) : returned[o] # NotReturned => PageInFile(o, returned[o])

\* C2 witness: the pool has completed, an offset was pending when the empty
\* page was observed, and rows of that offset's page are in the file.
C2_Witness ==
  /\ FeedCompleted
  /\ emptyPending.seen
  /\ \E o \in emptyPending.pending : Len(RowsOf(o)) > 0

\* C3 as stated: no call makes more than 3 GETs, neither the count probe nor
\* the fetch of a page.
C3_RetryBoundOfThree ==
  /\ probe_gets <= 3
  /\ \A w \in Workers : gets[w] <= 3

\* C3 amended: the fetch of one offset makes at most max_attempts = 10 GETs,
\* the count probe at most 3.
C3_RetryBound ==
  /\ probe_gets <= probe_attempts
  /\ \A w \in Workers : gets[w] <= max_attempts

\* C3 witness: a fetch is waiting for the answer to its last allowed GET.
C3_Witness ==
  \E w \in Workers : pc[w] = "await_resp" /\ gets[w] = max_attempts

\* C4: when the feed completes, every page the API returned is in the file:
\* one row per contact with an email, in the page's order, none for a contact
\* without; and an offset whose page was not returned has no row.
C4_ReturnedPagesInSink ==
  FeedCompleted =>
    \A o \in Range(Plan) :
      IF returned[o] # NotReturned
        THEN PageInFile(o, returned[o])
        ELSE RowsOf(o) = <<>>

\* C4 witness: the feed has completed and a returned page mixes a contact
\* without email and one with an email.
C4_Witness ==
  /\ FeedCompleted
  /\ \E o \in Range(Plan) :
       /\ returned[o] # NotReturned
       /\ Null \in Range(returned[o])
       /\ Len(RowsOf(o)) > 0

\* The offsets whose page came back with contacts to write and has no row in
\* the file: building its frame raised.
Malformed ==
  {o \in DOMAIN returned :
     /\ returned[o] # NotReturned
     /\ \E i \in 1..Len(returned[o]) : returned[o][i] # Null
     /\ RowsOf(o) = <<>>}

\* C5: a fetch that failed on every attempt is not fatal: its offset has no
\* row; it does not end the worker (a worker ends early only on a malformed
\* page); every offset of the plan is still dispatched and is either skipped
\* this way or fetched; and once run() has gone past the feed, the feed's
\* state has been written unless a malformed page made the run exit 2.
C5_ExhaustedFetchNonFatal ==
  /\ \A e \in exhausted : e.feed = feed => RowsOf(e.offset) = <<>>
  /\ mainpc \in {"gather", "write_state"} =>
       Cardinality({w \in Workers : pc[w] = "failed"}) <= Cardinality(Malformed)
  /\ FeedCompleted =>
       /\ Range(dispatched) = Range(Plan)
       /\ \A o \in Range(Plan) :
            returned[o] = NotReturned <=> [feed |-> feed, offset |-> o] \in exhausted
  /\ \A e \in exhausted :
       mainpc \notin {"gather", "write_state"} =>
         IF exit_code = InternalExitCode
           THEN Malformed # {}
           ELSE e.feed \in Range(state_file)

\* C5 witness: the state of a feed has been written although the fetch of
\* one of its offsets failed on every attempt, and another offset's rows are
\* in its file.
C5_Witness ==
  /\ \E e \in exhausted :
       /\ e.feed \in Range(state_file)
       /\ \E i \in 1..Len(file[e.feed].lines) :
            file[e.feed].lines[i].kind = "row" /\ file[e.feed].lines[i].offset # e.offset

\* C6: when the count probe of a feed has failed on all its attempts the
\* process exits 1, the feed's file has not been touched, no page request of
\* that feed was issued and no state was written for it.
ProbeFailed == mainpc = "exit" /\ api_token /\ attempts = 0 /\ probe_gets > 0

C6_ProbeFailureAborts ==
  /\ (mainpc = "exit" /\ exit_code = UserExitCode /\ api_token) => ProbeFailed
  /\ ProbeFailed =>
       /\ exit_code = UserExitCode
       /\ probe_gets = probe_attempts
       /\ file[feed] = Absent
       /\ feed \notin Range(state_file)
       /\ dispatched = <<>>
       /\ \A w \in Workers : pc[w] = "none" /\ gets[w] = 0

\* C6 witness: the marketing probe has failed after the transactional feed
\* completed.
C6_Witness ==
  /\ ProbeFailed
  /\ feed = KEY_MARKETING
  /\ state_file = <<KEY_TRANSACTIONAL>>

\* C7: a file that has been opened is one header line, the feed's, followed
\* by data lines only.
C7_OneHeaderFirst ==
  \A f \in Feeds :
    file[f].exists =>
      /\ Len(file[f].lines) >= 1
      /\ file[f].lines[1] = HeaderLine(f)
      /\ \A i \in 2..Len(file[f].lines) :
           file[f].lines[i].kind = "row" /\ file[f].lines[i].feed = f

\* C7 witness: a file holds its header and the rows of two pages.
C7_Witness ==
  \E f \in Feeds :
    /\ file[f].exists
    /\ Cardinality({file[f].lines[i].offset : i \in 2..Len(file[f].lines)}) = 2

\* C8: no two workers are inside the write of a page at the same time, and in
\* the file the rows of one page are contiguous.
C8_PageWritesExclusive ==
  /\ \A v, w \in Workers : (pc[v] = "write" /\ pc[w] = "write") => v = w
  /\ \A f \in Feeds :
       \A i, k \in 2..Len(file[f].lines) :
         (i < k /\ file[f].lines[i].offset = file[f].lines[k].offset) =>
           \A j \in i..k : file[f].lines[j].offset = file[f].lines[i].offset

\* C8 witness: a worker is half way through the write of its page while
\* another worker has a request in flight.
C8_Witness ==
  \E v, w \in Workers :
    /\ pc[v] = "write"
    /\ Len(RowsOf(offset[v])) = 1
    /\ Len(contacts[v]) = 1
    /\ pc[w] = "await_resp"

\* C9: the plan has ceil(N/B) elements, the i-th being (i-1)*B, all of them
\* smaller than N; it is empty for N = 0.
C9_OffsetPlanShape ==
  mainpc = "gather" =>
    /\ Len(offsets) = (total_records + batch_size - 1) \div batch_size
    /\ \A i \in 1..Len(offsets) : offsets[i] = (i - 1) * batch_size /\ offsets[i] < total_records
    /\ total_records = 0 => offsets = <<>>
    /\ unfinished = Len(offsets)

\* C9 witness: a plan of several offsets whose total is not a multiple of the
\* batch size.
C9_Witness ==
  /\ mainpc = "gather"
  /\ Len(offsets) >= 3
  /\ total_records % batch_size # 0

\* C10: within one call the sleeps between retries never get shorter, and
\* every sleep is followed by an attempt: a call has slept exactly once per
\* GET but the one in hand, and does not sleep after its last allowed GET.
C10_BackoffMonotone ==
  /\ NonDecreasing(probe_sleeps)
  /\ \A w \in Workers : NonDecreasing(sleeps[w])
  /\ mainpc = "probe_sleep" => Len(probe_sleeps) = probe_gets /\ probe_gets < probe_attempts
  /\ (mainpc = "exit" /\ probe_gets > 0) => Len(probe_sleeps) = probe_gets - 1
  /\ \A w \in Workers :
       /\ pc[w] = "sleeping" => Len(sleeps[w]) = gets[w] /\ gets[w] < max_attempts
       /\ pc[w] = "await_resp" => Len(sleeps[w]) = gets[w] - 1

\* C10 witness: a fetch has slept before each of its retries, nine times, and
\* the probe of the same run slept twice.
C10_Witness ==
  \E w \in Workers : pc[w] = "await_resp" /\ Len(sleeps[w]) = max_attempts - 1

\* In the step at hand the request worker w was waiting for has failed.
RequestFailed(w) ==
  /\ pc[w] = "await_resp"
  /\ pc'[w] \notin {"await_resp", "cancelled"}
  /\ returned' = returned

\* A worker of the pool at hand has met a failed request: its fetch is in a
\* backoff sleep or past its first GET, or a fetch of this pool has given up.
FailureObserved ==
  /\ mainpc = "gather"
  /\ \/ \E w \in Workers : pc[w] = "sleeping" \/ gets[w] > 1
     \/ \E e \in exhausted : e.feed = feed

\* C11 as stated: a 404 to a page request leads to no backoff sleep and no
\* further GET for the offset, and once a worker has met a 404 no offset is
\* taken from the queue any more.
C11_NotFoundEndsDispatch ==
  [][fault = {"s404"} =>
       /\ \A w \in Workers : RequestFailed(w) => pc'[w] # "sleeping"
       /\ FailureObserved => Len(dispatched') <= Len(dispatched)]_vars

\* C11 amended: a 404 is a failure like any other.  The fetch sleeps and
\* tries again until its 10 GETs are used, then gives the offset up without
\* ending the worker; dispatch goes on, and when the pool completes every
\* offset of the plan has been dispatched.
C11_NotFoundRetriedDispatchGoesOn ==
  /\ [](fault = {"s404"} =>
          /\ mainpc \in {"gather", "write_state"} =>
               Cardinality({w \in Workers : pc[w] = "failed"}) <= Cardinality(Malformed)
          /\ FeedCompleted => Range(dispatched) = Range(Plan) /\ offsets = <<>>)
  /\ [][fault = {"s404"} =>
          \A w \in Workers :
            RequestFailed(w) =>
              IF gets[w] < max_attempts
                THEN pc'[w] = "sleeping"
                ELSE /\ pc'[w] = "task_done"
                     /\ [feed |-> feed, offset |-> offset[w]] \in exhausted']_vars

\* C11 witness: one worker alone has met ten 404s for the first offset, has
\* given it up and has then taken the second offset from the queue.
C11_Witness ==
  /\ fault = {"s404"}
  /\ [feed |-> feed, offset |-> 0] \in exhausted
  /\ \E v \in Workers :
       /\ pc[v] = "await_resp"
       /\ offset[v] = batch_size
       /\ \A w \in Workers \ {v} : pc[w] = "start"

\* The failures the retry policy is not to retry: a 4xx status other than
\* 429 and a body that does not parse; for a page request a 404 is set apart.
ProbeTerminal == {"s4xx", "s404", "badjson"}
FetchTerminal == {"s4xx", "badjson"}

\* In the step at hand the request of the count probe has failed.
ProbeRequestFailed ==
  /\ mainpc = "probe"
  /\ mainpc' \notin {"probe", "open_sink"}

\* C12 as stated: after a terminal failure there is no backoff sleep and no
\* second GET, neither in the count probe nor in the fetch of a page.
C12_TerminalNeverRetried ==
  /\ fault \subseteq ProbeTerminal => mainpc # "probe_sleep" /\ probe_gets <= 1
  /\ fault \subseteq FetchTerminal =>
       \A w \in Workers : pc[w] # "sleeping" /\ gets[w] <= 1

\* C12 amended: every failure is retried, whatever its kind.  No failed
\* request ends the run by itself: the probe exits (with code 1) only after
\* its three GETs have failed and sleeps after each failure before, and a
\* fetch gives its offset up only after its ten GETs have failed and sleeps
\* after each failure before.
C12_EveryFailureRetried ==
  /\ []((mainpc = "exit" /\ probe_gets > 0) =>
          probe_gets = probe_attempts /\ exit_code = UserExitCode)
  /\ [][ProbeRequestFailed =>
          IF probe_gets' < probe_attempts
            THEN mainpc' = "probe_sleep"
            ELSE mainpc' = "exit" /\ exit_code' = UserExitCode]_vars
  /\ [][\A w \in Workers :
          RequestFailed(w) =>
            IF gets[w] < max_attempts
              THEN pc'[w] = "sleeping"
              ELSE /\ pc'[w] = "task_done"
                   /\ [feed |-> feed, offset |-> offset[w]] \in exhausted']_vars

\* C12 witness: against a remote answering every failed request with a body
\* that does not parse, a fetch has used its ten GETs and the feed has
\* completed all the same.
C12_Witness ==
  /\ fault = {"badjson"}
  /\ \E e \in exhausted : e.feed \in Range(state_file)

\* C13: at every moment the page requests in flight are at most as many as
\* there are workers, and at most one per worker, whatever the length of the
\* plan.
C13_InFlightBounded ==
  /\ Cardinality(inflight) <= NumWorkers
  /\ \A r, q \in inflight : r.worker = q.worker => r = q

\* C13 witness: every worker has a request in flight and an offset of the
\* plan is still waiting in the queue.
C13_Witness ==
  /\ Cardinality(inflight) = NumWorkers
  /\ offsets # <<>>

\* The flag of feed f as the configuration sets it.
Flag(f) == IF f = KEY_TRANSACTIONAL THEN transactional ELSE marketing

\* run() is inside the work on the feed at hand: its probe, its file or its
\* pool.
InFeed ==
  mainpc \in {"probe", "probe_sleep", "open_sink", "process_batches", "gather", "write_state"}

\* C14: a feed whose flag is false is skipped without effect: run() never
\* enters its probe, its file or its pool, its file is never created, and no
\* state is written on its behalf.
C14_DisabledFeedUntouched ==
  \A f \in Feeds :
    ~Flag(f) =>
      /\ ~(feed = f /\ InFeed)
      /\ file[f] = Absent
      /\ f \notin Range(state_file)
      /\ \A e \in exhausted : e.feed # f

\* C14 witness: the run has ended with the transactional feed skipped and
\* the marketing feed extracted.
C14_Witness ==
  /\ mainpc = "exit"
  /\ ~transactional
  /\ state_file = <<KEY_MARKETING>>
  /\ Len(file[KEY_MARKETING].lines) > 1

\* C15: the state of a feed is written at most once, for an enabled feed
\* only, and only when its pool has run to completion: every worker has
\* returned, the queue is empty, every offset taken has been marked done, no
\* request is in flight and every page returned is in the file.  A run that
\* ends with exit code 0 has written the state of every enabled feed, a feed
\* with no records included.
C15_StateWrittenOnceAfterPool ==
  /\ [](/\ \A i, j \in 1..Len(state_file) : state_file[i] = state_file[j] => i = j
        /\ \A f \in Range(state_file) : Flag(f) /\ file[f].exists
        /\ (mainpc = "exit" /\ exit_code = 0) =>
             \A f \in Feeds : Flag(f) => f \in Range(state_file))
  /\ [][state_file' # state_file =>
          /\ state_file' = Append(state_file, feed)
          /\ feed \notin Range(state_file)
          /\ \A w \in Workers : pc[w] = "done"
          /\ offsets = <<>> /\ unfinished = 0 /\ inflight = {}
          /\ Range(dispatched) = Range(Plan)
          /\ \A o \in Range(Plan) :
               returned[o] # NotReturned => PageInFile(o, returned[o])]_vars

\* C15 witness: the run has ended with both states written, the transactional
\* feed's after rows were written, the marketing feed's for a total of 0 and
\* a file that holds the header only.
C15_Witness ==
  /\ mainpc = "exit"
  /\ state_file = <<KEY_TRANSACTIONAL, KEY_MARKETING>>
  /\ Len(file[KEY_TRANSACTIONAL].lines) > 1
  /\ total_records = 0
  /\ file[KEY_MARKETING].lines = <<HeaderLine(KEY_MARKETING)>>

\* C16: offsets are taken from the queue in ascending order.  At every moment
\* the offsets dispatched are a beginning of the plan and the queue holds the
\* rest of it; a completed pool has dispatched the whole plan; and a pool
\* that has started gets to dispatch the whole plan unless a worker raises.
C16_DispatchAscendingAndComplete ==
  /\ [](mainpc \in {"gather", "write_state"} =>
          /\ dispatched \o offsets = Plan
          /\ \A i, j \in 1..Len(dispatched) : i < j => dispatched[i] < dispatched[j]
          /\ FeedCompleted => dispatched = Plan)
  /\ (mainpc = "gather") ~>
       (dispatched = Plan \/ \E w \in Workers : pc[w] = "failed")

\* C16 witness: a plan with more offsets than workers has been dispatched to
\* its end and the pool has completed.
C16_Witness ==
  /\ FeedCompleted
  /\ Len(Plan) > NumWorkers
  /\ dispatched = Plan

RECURSIVE SumSeq(_)
SumSeq(q) == IF q = <<>> THEN 0 ELSE Head(q) + SumSeq(Tail(q))

\* C17: the sleeps of one call add up to at most 2^A - 1 seconds, A being the
\* call's number of attempts: 7 for the count probe, 1023 for the fetch of a
\* page.
C17_TotalBackoffBounded ==
  /\ SumSeq(probe_sleeps) <= 2 ^ probe_attempts - 1
  /\ \A w \in Workers : SumSeq(sleeps[w]) <= 2 ^ max_attempts - 1

\* C17 witness: the probe of the marketing feed is on its last attempt after
\* sleeping 2 + 4 seconds, and a fetch of the transactional feed had slept
\* nine times before it gave up.
C17_Witness ==
  /\ mainpc = "probe"
  /\ SumSeq(probe_sleeps) = 6
  /\ \E e \in exhausted : e.feed = KEY_TRANSACTIONAL

\* C18: no worker calls offsets.get() on an empty queue.  A worker that has
\* found the queue not empty holds the event loop until it has taken its
\* offset, so the queue is still not empty when it does, and no worker is
\* ever stuck in get(); a pool whose workers have all returned has left no
\* offset on the queue.
C18_GetNeverBlocks ==
  /\ \A w \in Workers :
       /\ pc[w] # "blocked"
       /\ pc[w] = "get" => offsets # <<>> /\ running = {w}
  /\ (\A w \in Workers : pc[w] = "done") => offsets = <<>>

\* C18 witness: with fewer offsets than workers, a worker has found the one
\* offset on the queue and is about to take it while the other workers have
\* yet to test the queue.
C18_Witness ==
  /\ Len(Plan) = 1
  /\ Len(Plan) < NumWorkers
  /\ \E v \in Workers :
       /\ pc[v] = "get"
       /\ \A w \in Workers \ {v} : pc[w] = "start"

\* The gather has completed: every worker has returned and the queue is empty.
PoolCompleted ==
  /\ mainpc # "gather"
  /\ offsets = <<>>
  /\ unfinished = 0
  /\ inflight = {}
  /\ \A w \in Workers : pc[w] \in {"done", "none"}

\* The gather has raised: a worker met a page it could not put in a frame.
PoolRaised ==
  /\ mainpc = "exit"
  /\ exit_code = InternalExitCode
  /\ Malformed # {}
  /\ inflight = {}
  /\ \A w \in Workers : pc[w] \in {"done", "failed", "cancelled"}

\* C19: process_batches terminates.  No fetch makes more than its ten GETs,
\* and a pool that has started comes to its end: the queue is empty, no
\* request is open and every worker has returned, so that the gather
\* completes (or, on a page that cannot be put in a frame, the gather raises
\* and the workers left are cancelled).
C19_PoolTerminates ==
  /\ [](\A w \in Workers : gets[w] <= max_attempts /\ attempt[w] < max_attempts)
  /\ [](mainpc # "gather" => PoolCompleted \/ PoolRaised \/ mainpc = "process_batches")
  /\ (mainpc = "gather") ~> (PoolCompleted \/ PoolRaised)

\* C19 witness: a pool with more offsets than workers has completed although
\* the fetch of one offset failed on all its attempts; rows of another
\* offset are in the file.
C19_Witness ==
  /\ FeedCompleted
  /\ PoolCompleted
  /\ Len(Plan) > NumWorkers
  /\ \E e \in exhausted : e.feed = feed /\ \E o \in Range(Plan) \ {e.offset} : RowsOf(o) # <<>>

\* C20: with both feeds enabled the transactional feed comes strictly first:
\* run() is at the marketing feed only once the transactional feed has
\* completed and its state is written.  The probe's last failure ends the
\* run at once with exit code 1, leaving files and state as they are: after
\* the transactional probe's, the marketing feed was never entered, no file
\* exists and no state is written; after the marketing probe's, the
\* transactional file and state are in place.  Nothing done for the
\* marketing feed changes the transactional file.
C20_TransactionalFirstProbeFailureAborts ==
  /\ []((transactional /\ marketing) =>
          /\ feed = KEY_MARKETING =>
               /\ state_file # <<>> /\ Head(state_file) = KEY_TRANSACTIONAL
               /\ file[KEY_TRANSACTIONAL].exists
          /\ file[KEY_MARKETING].exists => feed = KEY_MARKETING
          /\ (ProbeFailed /\ feed = KEY_TRANSACTIONAL) =>
               /\ exit_code = UserExitCode
               /\ file = [f \in Feeds |-> Absent]
               /\ state_file = <<>>
          /\ (ProbeFailed /\ feed = KEY_MARKETING) =>
               /\ exit_code = UserExitCode
               /\ file[KEY_MARKETING] = Absent
               /\ state_file = <<KEY_TRANSACTIONAL>>)
  /\ [][(mainpc = "probe" /\ attempts = 1 /\ attempts' = 0) =>
          /\ mainpc' = "exit"
          /\ exit_code' = UserExitCode
          /\ UNCHANGED <<feed, file, state_file>>]_vars
  /\ [][feed = KEY_MARKETING =>
          file'[KEY_TRANSACTIONAL] = file[KEY_TRANSACTIONAL]]_vars

\* C20 witness: both feeds are enabled, the transactional feed has written
\* rows and its state, and the marketing probe has failed on its last attempt.
C20_Witness ==
  /\ transactional /\ marketing
  /\ ProbeFailed
  /\ feed = KEY_MARKETING
  /\ exit_code = UserExitCode
  /\ Len(file[KEY_TRANSACTIONAL].lines) > 1
  /\ file[KEY_MARKETING] = Absent

====
